---- MODULE Spec2Model ----
(***************************************************************************)
(* Model of build_report.py, the daily EP screener: load_tickers,          *)
(* get_news_score, compute_gap_and_volume_metrics, compute_diff and        *)
(* build.                                                                  *)
(*                                                                         *)
(* Number representation.  Python floats are modelled in fixed point:      *)
(*   scores and vol_ratio        in thousandths  (4.45  is 4450)           *)
(*   gap_pct (a fraction)        in 1e-5 units   (0.10  is 10000)          *)
(*   gap_pct as stored in a row  in thousandths of a percent, which is     *)
(*                               numerically the same integer              *)
(*   instants                    in seconds since the epoch                *)
(* Strings that the code parses, sorts or searches are tuples of           *)
(* one-character strings.  An optional value is <<>> (None / NaN) or <<v>>.*)
(***************************************************************************)
EXTENDS Integers, Sequences, FiniteSets, TLC

VARIABLES
    \* ---- one run of build() ----
    pc,          \* position of the run: "start", "loop", "json" (ep_report.json
                 \* written), "done", "aborted"; "idle" when no run is modelled
    fileText,    \* content of the ticker list file qm1w.txt
    now,         \* dt.datetime.utcnow() of the run
    tickers,     \* build: tickers
    idx,         \* position of the for loop over tickers (next ticker to process)
    rows,        \* build: rows
    df,          \* build: df, the sorted frame (sequence of frame rows)
    jsonFile,    \* ep_report.json as written by this run (<<>> = not written)
    htmlFile,    \* ep_report.html as written by this run (<<>> = not written)
    raised,      \* exception that left build(), "" when none
    \* ---- get_news_score called on a growing list ----
    newsItems,   \* the news_items argument
    sinceTs,     \* the since_ts argument
    newsOut,     \* outcome of get_news_score(newsItems, sinceTs)
    newsPrev,    \* outcome of the call before the last item was appended
    \* ---- the scoring of one ticker ----
    scIn,        \* the inputs: history and news score
    scOut,       \* the locals and the row computed from them
    \* ---- compute_diff ----
    dfIn,        \* the two texts: current file and previous revision
    dfOut        \* (added, removed) or the exception

vars == << pc, fileText, now, tickers, idx, rows, df, jsonFile, htmlFile, raised,
           newsItems, sinceTs, newsOut, newsPrev, scIn, scOut, dfIn, dfOut >>

buildVars == << pc, fileText, now, tickers, idx, rows, df, jsonFile, htmlFile, raised >>
newsVars  == << newsItems, sinceTs, newsOut, newsPrev >>
scoreVars == << scIn, scOut >>
diffVars  == << dfIn, dfOut >>

(***************************************************************************)
(* Bounds of the model.                                                    *)
(***************************************************************************)
MaxNews == 3        \* longest news list passed to get_news_score
MaxTextLen == 3     \* longest enumerated ticker-list text, in characters
MaxTickers == 2     \* most tickers in the list file of a modelled run

(***************************************************************************)
(* Configuration (lines 7-16).                                             *)
(***************************************************************************)
NEWS_LOOKBACK_DAYS == 90
VOL_SMA_WINDOW == 50
GAP_THRESHOLD == 10000
VOL_RATIO_GOOD == 2000
NEWS_KEYWORDS ==
    << <<"e","a","r","n","i","n","g","s">>,
       <<"g","u","i","d","a","n","c","e">>,
       <<"r","e","v","e","n","u","e">>,
       <<"e","p","s">>,
       <<"b","e","a","t","s">>,
       <<"m","i","s","s">>,
       <<"a","c","q","u","i","r","e">>,
       <<"a","c","q","u","i","s","i","t","i","o","n">>,
       <<"m","e","r","g","e","r">>,
       <<"p","a","r","t","n","e","r","s","h","i","p">>,
       <<"s","t","r","a","t","e","g","i","c">>,
       <<"a","p","p","r","o","v","a","l">>,
       <<"f","d","a">>,
       <<"p","h","a","s","e">>,
       <<"c","o","n","t","r","a","c","t">>,
       <<"o","r","d","e","r">>,
       <<"u","p","g","r","a","d","e">>,
       <<"i","n","i","t","i","a","t","e","s"," ","c","o","v","e","r","a","g","e">> >>

(***************************************************************************)
(* Generic helpers.                                                        *)
(***************************************************************************)
None == <<>>
Some(v) == <<v>>
Min(a, b) == IF a <= b THEN a ELSE b
Max(a, b) == IF a >= b THEN a ELSE b
Range(s) == { s[k] : k \in DOMAIN s }

RECURSIVE SeqsUpTo(_, _)
\* all sequences over S of length at most n
SeqsUpTo(S, n) ==
    IF n = 0 THEN { <<>> }
    ELSE LET shorter == SeqsUpTo(S, n - 1)
         IN  shorter \cup { Append(s, x) : s \in shorter, x \in S }

(***************************************************************************)
(* str.lower() and the substring test `kw in title` (lines 33, 36).        *)
(***************************************************************************)
UpperAlpha == <<"A","B","C","D","E","F","G","H","I","J","K","L","M",
                "N","O","P","Q","R","S","T","U","V","W","X","Y","Z">>
LowerAlpha == <<"a","b","c","d","e","f","g","h","i","j","k","l","m",
                "n","o","p","q","r","s","t","u","v","w","x","y","z">>

LowerChar(c) ==
    IF \E k \in DOMAIN UpperAlpha : UpperAlpha[k] = c
    THEN LowerAlpha[CHOOSE k \in DOMAIN UpperAlpha : UpperAlpha[k] = c]
    ELSE c

Lower(s) == [k \in DOMAIN s |-> LowerChar(s[k])]

\* kw in title
Contains(title, kw) ==
    \E k \in 1..(Len(title) - Len(kw) + 1) :
        SubSeq(title, k, k + Len(kw) - 1) = kw

(***************************************************************************)
(* get_news_score (lines 23-39).                                           *)
(*                                                                         *)
(* A news item is a record [ppt, published, title]: the values of          *)
(* n.get("providerPublishTime"), n.get("published") and n.get("title"),    *)
(* None when the key is missing.  A timestamp value is                     *)
(*   Num(n)     an int/float of epoch seconds                              *)
(*   Huge       a number utcfromtimestamp rejects (e.g. milliseconds)      *)
(*   NaN        float('nan'): int(ts) raises                               *)
(*   Str(f, n)  a string; f is                                             *)
(*        "naive"   ISO8601 without zone, denoting instant n in UTC        *)
(*        "z"       the same with a trailing "Z"                           *)
(*        "offset"  ISO8601 with a UTC offset such as +00:00               *)
(*        "garbage" a non-empty string fromisoformat rejects               *)
(*        "empty"   the empty string                                       *)
(***************************************************************************)
Num(n) == [tag |-> "num", form |-> "", secs |-> n]
Huge == [tag |-> "huge", form |-> "", secs |-> 0]
NaN == [tag |-> "nan", form |-> "", secs |-> 0]
Str(f, n) == [tag |-> "str", form |-> f, secs |-> n]

\* Python truthiness of a timestamp value, as used by `or` on line 26
Truthy(ts) ==
    /\ ts # None
    /\ ~(ts[1].tag = "num" /\ ts[1].secs = 0)
    /\ ~(ts[1].tag = "str" /\ ts[1].form = "empty")

\* line 26: ts = n.get("providerPublishTime") or n.get("published")
ResolveTs(n) == IF Truthy(n.ppt) THEN n.ppt ELSE n.published

\* line 29 inside the try of lines 28-31: the datetime built from ts, or the
\* exception the bare except swallows.  kind is "naive", "aware" or "except".
ParsePublished(ts) ==
    CASE ts.tag = "num"  -> [kind |-> "naive", secs |-> ts.secs]
      [] ts.tag = "huge" -> [kind |-> "except", secs |-> 0]
      [] ts.tag = "nan"  -> [kind |-> "except", secs |-> 0]
      [] ts.tag = "str"  ->
            CASE ts.form = "naive"  -> [kind |-> "naive", secs |-> ts.secs]
              \* str(ts).replace("Z","") leaves the zone-less form
              [] ts.form = "z"      -> [kind |-> "naive", secs |-> ts.secs]
              \* fromisoformat keeps the offset: an aware datetime
              [] ts.form = "offset" -> [kind |-> "aware", secs |-> ts.secs]
              [] OTHER              -> [kind |-> "except", secs |-> 0]

\* lines 35-37: one per keyword of the list found in the title
KeywordHits(title) ==
    Cardinality({ k \in DOMAIN NEWS_KEYWORDS : Contains(title, NEWS_KEYWORDS[k]) })

\* lines 33-38: min(s, 3.0) for one item that passed the date test
ItemContribution(n) ==
    LET title == IF n.title = None THEN <<>> ELSE Lower(n.title[1])
        s == 500 + 1000 * KeywordHits(title)
    IN  Min(s, 3000)

\* The body of the loop for one item (lines 26-38): what it does to score.
\* step is "skip" (a continue), "add", or "raise" (TypeError out of line 32:
\* an aware datetime compared with the naive since_ts).
ItemStep(n, since_ts) ==
    LET ts == ResolveTs(n) IN
    IF ts = None THEN [step |-> "skip", by |-> 0]
    ELSE LET published == ParsePublished(ts[1]) IN
         CASE published.kind = "except" -> [step |-> "skip", by |-> 0]
           [] published.kind = "aware"  -> [step |-> "raise", by |-> 0]
           [] OTHER ->
                IF published.secs < since_ts
                THEN [step |-> "skip", by |-> 0]
                ELSE [step |-> "add", by |-> ItemContribution(n)]

RECURSIVE NewsLoop(_, _, _, _)
\* the for loop of lines 25-38 from item k on, with the score so far
NewsLoop(news_items, since_ts, k, score) ==
    IF k > Len(news_items) THEN [exc |-> "", val |-> score]
    ELSE LET st == ItemStep(news_items[k], since_ts) IN
         IF st.step = "raise" THEN [exc |-> "TypeError", val |-> 0]
         ELSE NewsLoop(news_items, since_ts, k + 1, score + st.by)

\* get_news_score(news_items, since_ts): [exc, val]; exc = "" on a normal
\* return of val = min(score, 10.0)
get_news_score(news_items, since_ts) ==
    LET r == NewsLoop(news_items, since_ts, 1, 0) IN
    IF r.exc # "" THEN r ELSE [exc |-> "", val |-> Min(r.val, 10000)]

(***************************************************************************)
(* compute_gap_and_volume_metrics (lines 41-49).                           *)
(*                                                                         *)
(* What tk.history(period="6mo") gives is modelled by the outcome of the   *)
(* call: [tag |-> "raise", msg |-> m] when it raises, else a frame         *)
(* summarised by what the function reads of it:                            *)
(*   bars       len(hist)                                                  *)
(*   open       Open of the last bar              (cents)                  *)
(*   prevClose  Close of the bar before it, > 0   (cents)                  *)
(*   volume     Volume of the last bar            (shares)                 *)
(*   adv        the 50-bar rolling mean of Volume at the last bar          *)
(*   close      Close of the last bar, only copied into the row; the       *)
(*              enumerated frames close at their open  (cents)             *)
(*   date       date of the last bar                                       *)
(* The float quotients are exact at the model's resolution for the frames  *)
(* enumerated below, and none falls on a rounding tie.                     *)
(***************************************************************************)
Frame(bars, open, prevClose, volume, adv) ==
    [tag |-> "frame", bars |-> bars, open |-> open, prevClose |-> prevClose,
     volume |-> volume, adv |-> adv, close |-> open, date |-> "2024-05-01"]

HistRaises(m) == [tag |-> "raise", msg |-> m]

\* line 44: hist.empty or len(hist) < VOL_SMA_WINDOW+2
InsufficientHistory(hist) == hist.bars = 0 \/ hist.bars < VOL_SMA_WINDOW + 2

\* [exc, metrics]: metrics is None (line 44) or Some of the dict of line 49
compute_gap_and_volume_metrics(hist) ==
    IF hist.tag = "raise" THEN [exc |-> hist.msg, metrics |-> None]
    ELSE IF InsufficientHistory(hist) THEN [exc |-> "", metrics |-> None]
    ELSE LET gap_pct == ((hist.open - hist.prevClose) * 100000) \div hist.prevClose
             vol_ratio == (hist.volume * 1000) \div Max(1, hist.adv)
         IN  [exc |-> "",
              metrics |-> Some([gap_pct |-> gap_pct, vol_ratio |-> vol_ratio,
                                close |-> hist.close, date |-> hist.date])]

(***************************************************************************)
(* The composite score (lines 70-74).                                      *)
(***************************************************************************)
\* round(x, 2) of a value given in thousandths: the nearest hundredth; a
\* value that is exactly a tie goes to the even hundredth.
Round2(x) ==
    LET lo == (x \div 10) * 10
        r  == x - lo
    IN  IF r < 5 THEN lo
        ELSE IF r > 5 THEN lo + 10
        ELSE IF (lo \div 10) % 2 = 0 THEN lo ELSE lo + 10

\* The weighted sums of line 74 that are decimal ties but whose double value
\* lies just below the tie (0.5*0.15 is 0.07499999999999999722..., and so
\* on): round() takes these down.  The other ties (2.075, 3.125, 3.325)
\* round as Round2 does.
DoubleBelowTie == { 75, 675, 1275 }

\* line 70
Fresh(news_score) == Min(5000, news_score)

\* line 71 with the comparisons of the top tier strict
InstStrict(metrics) ==
    IF metrics.gap_pct > GAP_THRESHOLD /\ metrics.vol_ratio > VOL_RATIO_GOOD
    THEN 5000
    ELSE IF metrics.gap_pct >= 5000 /\ metrics.vol_ratio >= 1500
         THEN 3000
         ELSE IF metrics.vol_ratio >= 1200 THEN 1500 ELSE 0

\* line 71
Inst(metrics) ==
    IF metrics.gap_pct >= GAP_THRESHOLD /\ metrics.vol_ratio >= VOL_RATIO_GOOD
    THEN 5000
    ELSE IF metrics.gap_pct >= 5000 /\ metrics.vol_ratio >= 1500
         THEN 3000
         ELSE IF metrics.vol_ratio >= 1200 THEN 1500 ELSE 0

\* line 72 with a last branch of 0.0
JustifiedZero(fresh, inst) ==
    IF fresh >= 2000 /\ inst >= 3000 THEN 4000
    ELSE IF fresh > 0 THEN 2000 ELSE 0

\* line 72
Justified(fresh, inst) ==
    IF fresh >= 2000 /\ inst >= 3000 THEN 4000
    ELSE IF fresh > 0 THEN 2000 ELSE 500

\* line 73
Rerate(fresh, inst) == Min(5000, fresh + inst \div 2)

\* line 74: the weights are 0.4, 0.35, 0.15, 0.10; the products are exact in
\* thousandths because every sub-score is a multiple of 0.25
OverallOf(fresh, inst, justified, rerate) ==
    LET sum == (fresh * 40 + inst * 35 + justified * 15 + rerate * 10) \div 100
    IN  IF sum \in DoubleBelowTie THEN (sum \div 10) * 10 ELSE Round2(sum)

\* the locals of lines 70-74
Locals(metrics, news_score) ==
    LET fresh == Fresh(news_score)
        inst == Inst(metrics)
        justified == Justified(fresh, inst)
        rerate == Rerate(fresh, inst)
    IN  [fresh |-> fresh, inst |-> inst, justified |-> justified,
         rerate |-> rerate,
         overall |-> OverallOf(fresh, inst, justified, rerate)]

(***************************************************************************)
(* The three row shapes build() appends (lines 68, 75, 77).                *)
(***************************************************************************)
\* line 68
InsufficientRow(t) ==
    [ticker |-> t, overall |-> 0, gap_pct |-> None, vol_ratio |-> None,
     fresh_catalyst_score |-> 0, justified_story_score |-> 0,
     rerating_potential |-> 0]

\* line 75
ScoredRow(t, metrics, l) ==
    [ticker |-> t,
     gap_pct |-> Some(Round2(metrics.gap_pct)),
     vol_ratio |-> Some(Round2(metrics.vol_ratio)),
     fresh_catalyst_score |-> Round2(l.fresh),
     justified_story_score |-> Round2(l.justified),
     rerating_potential |-> Round2(l.rerate),
     overall |-> l.overall,
     last_date |-> metrics.date,
     price |-> metrics.close]

\* line 77
FailureRow(t, e) == [ticker |-> t, overall |-> 0, error |-> e]

(***************************************************************************)
(* The body of the for loop for one ticker (lines 63-77).  hist is the     *)
(* outcome of tk.history, feed the outcome of yf.Ticker(t).news:           *)
(* [tag |-> "raise", msg |-> m] or [tag |-> "news", items |-> seq], with   *)
(* items = <<>> also for a None or empty news value (`or []`).             *)
(***************************************************************************)
NewsRaises(m) == [tag |-> "raise", msg |-> m]
NewsFeed(items) == [tag |-> "news", items |-> items]

RowFor(t, hist, feed, since_ts) ==
    LET m == compute_gap_and_volume_metrics(hist) IN
    IF m.exc # "" THEN FailureRow(t, m.exc)                       \* line 64 raised
    ELSE IF feed.tag = "raise" THEN FailureRow(t, feed.msg)       \* line 65 raised
    ELSE LET ns == get_news_score(feed.items, since_ts) IN
         IF ns.exc # "" THEN FailureRow(t, ns.exc)                \* line 66 raised
         ELSE IF m.metrics = None THEN InsufficientRow(t)         \* lines 67-69
         ELSE ScoredRow(t, m.metrics[1], Locals(m.metrics[1], ns.val))

\* the locals of lines 70-74 when the iteration reaches them, else None
LocalsFor(hist, feed, since_ts) ==
    LET m == compute_gap_and_volume_metrics(hist) IN
    IF m.exc # "" \/ feed.tag = "raise" \/ m.metrics = None THEN None
    ELSE LET ns == get_news_score(feed.items, since_ts) IN
         IF ns.exc # "" THEN None
         ELSE Some([news_score |-> ns.val] @@ Locals(m.metrics[1], ns.val))

\* the three shapes, told apart by their fields
IsFailureRow(r) == "error" \in DOMAIN r
IsInsufficientRow(r) == ~IsFailureRow(r) /\ r.gap_pct = None
IsScoredRow(r) == ~IsFailureRow(r) /\ r.gap_pct # None

(***************************************************************************)
(* load_tickers (lines 18-21), on the text read from the file.             *)
(***************************************************************************)
RECURSIVE SplitOn(_, _)
\* Python's s.split(c): the pieces between occurrences of c, empty ones kept
SplitOn(s, c) ==
    IF \A k \in DOMAIN s : s[k] # c THEN << s >>
    ELSE LET k == CHOOSE j \in DOMAIN s : s[j] = c /\ \A h \in 1..(j - 1) : s[h] # c
         IN  << SubSeq(s, 1, k - 1) >> \o SplitOn(SubSeq(s, k + 1, Len(s)), c)

\* txt.splitlines(): like split("\n") but without the empty piece after a
\* final line break, and [] for the empty text
SplitLines(txt) ==
    LET pieces == SplitOn(txt, "\n")
    IN  IF pieces[Len(pieces)] = <<>> THEN SubSeq(pieces, 1, Len(pieces) - 1)
        ELSE pieces

RECURSIVE Strip(_)
\* t.strip()
Strip(t) ==
    IF t = <<>> THEN t
    ELSE IF t[1] = " " THEN Strip(Tail(t))
    ELSE IF t[Len(t)] = " " THEN Strip(SubSeq(t, 1, Len(t) - 1))
    ELSE t

RECURSIVE Flatten(_)
Flatten(ss) == IF ss = <<>> THEN <<>> ELSE ss[1] \o Flatten(Tail(ss))

\* line 20: raw = [t.strip() for line in txt.splitlines() for t in line.split(",")]
RawTokens(txt) ==
    LET lines == SplitLines(txt)
        perLine == [k \in DOMAIN lines |->
                       LET parts == SplitOn(lines[k], ",")
                       IN  [j \in DOMAIN parts |-> Strip(parts[j])]]
    IN  Flatten(perLine)

\* line 21: [t for t in raw if t], in order, duplicates kept
load_tickers(txt) == SelectSeq(RawTokens(txt), LAMBDA t : t # <<>>)

(***************************************************************************)
(* compute_diff (lines 51-56).                                             *)
(***************************************************************************)
\* code points in increasing order, for the characters the model uses
CodeOrder == <<" ", "A", "B", "C", "D">>

Ord(c) == CHOOSE k \in DOMAIN CodeOrder : CodeOrder[k] = c

\* s < t for Python strings
StrLess(s, t) ==
    \E k \in 1..(Min(Len(s), Len(t)) + 1) :
        /\ \A j \in 1..(k - 1) : s[j] = t[j]
        /\ IF k > Len(s) THEN k <= Len(t)
           ELSE k <= Len(t) /\ Ord(s[k]) < Ord(t[k])

RECURSIVE SortedReverse(_)
\* sorted(list(S), reverse=True)
SortedReverse(S) ==
    IF S = {} THEN <<>>
    ELSE LET most == CHOOSE x \in S : \A y \in S \ {x} : StrLess(y, x)
         IN  << most >> \o SortedReverse(S \ {most})

RECURSIVE Sorted(_)
\* sorted(list(S)) for a set of strings
Sorted(S) ==
    IF S = {} THEN <<>>
    ELSE LET least == CHOOSE x \in S : \A y \in S \ {x} : StrLess(x, y)
         IN  << least >> \o Sorted(S \ {least})

\* line 53: the tokens of the previous revision's text
PrevTokens(prev_content) ==
    LET lines == SplitLines(prev_content)
        perLine == [k \in DOMAIN lines |->
                       LET parts == SelectSeq(SplitOn(lines[k], ","),
                                              LAMBDA t : Strip(t) # <<>>)
                       IN  [j \in DOMAIN parts |-> Strip(parts[j])]]
    IN  Flatten(perLine)

\* prev_content is what the git command printed ("" when it failed, line 52);
\* cur_read is the outcome of open(UNIVERSE_FILE).read() inside load_tickers:
\* None when it raises, else Some(text).  [exc, added, removed].
compute_diff(prev_content, cur_read) ==
    LET prev == Range(PrevTokens(prev_content)) IN
    IF cur_read = None
    THEN [exc |-> "OSError", added |-> <<>>, removed |-> <<>>]
    ELSE LET cur == Range(load_tickers(cur_read[1]))
         IN  [exc |-> "", added |-> Sorted(cur \ prev), removed |-> Sorted(prev \ cur)]

(***************************************************************************)
(* pd.DataFrame(rows).sort_values(...) (line 79).                          *)
(*                                                                         *)
(* The frame has the union of the rows' keys as columns; a row lacking a   *)
(* key, or holding None, has NaN there.  A frame row is a function from    *)
(* the columns to optional values.                                         *)
(***************************************************************************)
SortKeys == << "overall", "fresh_catalyst_score", "vol_ratio" >>

Columns(rs) == UNION { DOMAIN rs[k] : k \in DOMAIN rs }

Cell(r, c) ==
    IF c \notin DOMAIN r THEN None
    ELSE IF c \in { "gap_pct", "vol_ratio" } THEN r[c]
    ELSE Some(r[c])

DataFrame(rs) ==
    LET cols == Columns(rs)
    IN  [k \in DOMAIN rs |-> [c \in cols |-> Cell(rs[k], c)]]

\* one sort key as na_position="first" would order it
CmpKeyNaFirst(x, y) ==
    IF x = None THEN (IF y = None THEN 0 ELSE -1)
    ELSE IF y = None THEN 1
    ELSE IF x[1] > y[1] THEN -1
    ELSE IF x[1] < y[1] THEN 1 ELSE 0

\* One sort key, ascending=False with the default na_position="last":
\* -1 when x sorts before y, 1 when after, 0 when they tie.
CmpKey(x, y) ==
    IF x = None THEN (IF y = None THEN 0 ELSE 1)
    ELSE IF y = None THEN -1
    ELSE IF x[1] > y[1] THEN -1
    ELSE IF x[1] < y[1] THEN 1 ELSE 0

RECURSIVE CmpFrom(_, _, _)
\* the keys from the k-th on, lexicographically
CmpFrom(a, b, k) ==
    IF k > Len(SortKeys) THEN 0
    ELSE LET c == CmpKey(a[SortKeys[k]], b[SortKeys[k]])
         IN  IF c # 0 THEN c ELSE CmpFrom(a, b, k + 1)

\* a sorts strictly before b
Before(a, b) == CmpFrom(a, b, 1) = -1

\* x put into the sorted sequence s behind everything it does not precede
InsertStable(s, x) ==
    LET ahead == { k \in DOMAIN s : Before(x, s[k]) }
        at == IF ahead = {} THEN Len(s) + 1
              ELSE CHOOSE k \in ahead : \A j \in ahead : k <= j
    IN  SubSeq(s, 1, at - 1) \o << x >> \o SubSeq(s, at, Len(s))

RECURSIVE StableSort(_)
\* pandas sorts several keys with a stable sort of the combined key: rows
\* that tie on every key keep the order they had in the frame
StableSort(s) ==
    IF s = <<>> THEN <<>>
    ELSE InsertStable(StableSort(SubSeq(s, 1, Len(s) - 1)), s[Len(s)])

\* line 79: [exc, frame]; KeyError when a key of `by` is no column
sort_values(rs) ==
    IF \E k \in DOMAIN SortKeys : SortKeys[k] \notin Columns(rs)
    THEN [exc |-> "KeyError", frame |-> <<>>]
    ELSE [exc |-> "", frame |-> StableSort(DataFrame(rs))]

(***************************************************************************)
(* The inputs the environment can supply.                                  *)
(***************************************************************************)
\* dt.datetime.utcnow() on line 60
RunClock == { 1700000000 }
Clock == RunClock \cup { 1700086400 }

\* line 60: since_ts = utcnow() - timedelta(days=NEWS_LOOKBACK_DAYS)
SinceTs(t) == t - NEWS_LOOKBACK_DAYS * 86400

\* publication instants: after every cutoff, exactly the earlier cutoff,
\* before every cutoff
RecentSecs == 1700000000 - 1000000
EdgeSecs == 1700000000 - 90 * 86400
OldSecs == 1700000000 - 10000000

TitleQuiet == <<"Q","u","i","e","t"," ","d","a","y">>
TitleUpgrade == <<"U","p","g","r","a","d","e","d">>
TitleEps == <<"E","P","S"," ","B","e","a","t","s">>
TitleMerger == <<"F","D","A"," ","P","h","a","s","e"," ","O","r","d","e","r">>

Item(ppt, published, title) == [ppt |-> ppt, published |-> published, title |-> title]

\* items dated after the cutoff by a numeric providerPublishTime
Dated(title) == Item(Some(Num(RecentSecs)), None, title)

ItemQuiet == Dated(Some(TitleQuiet))
ItemUpgrade == Dated(Some(TitleUpgrade))
ItemEps == Dated(Some(TitleEps))
ItemMerger == Dated(Some(TitleMerger))
ItemOffset == Item(None, Some(Str("offset", RecentSecs)), Some(TitleEps))

\* the items get_news_score is exercised on
NewsItems ==
    { ItemQuiet, ItemUpgrade, ItemEps, ItemMerger,
      Dated(None),                                                  \* no title
      Item(None, None, Some(TitleEps)),                             \* no timestamp
      Item(Some(Num(0)), None, Some(TitleEps)),                     \* epoch 0
      Item(Some(Num(0)), Some(Str("naive", RecentSecs)), Some(TitleUpgrade)),
      Item(Some(Num(OldSecs)), None, Some(TitleEps)),               \* too old
      Item(Some(Num(EdgeSecs)), None, Some(TitleUpgrade)),          \* at a cutoff
      Item(None, Some(Str("naive", OldSecs)), Some(TitleMerger)),
      Item(None, Some(Str("z", RecentSecs)), Some(TitleUpgrade)),
      Item(None, Some(Str("garbage", 0)), Some(TitleEps)),
      Item(None, Some(Str("empty", 0)), Some(TitleEps)),
      Item(Some(Huge), None, Some(TitleEps)),
      Item(Some(NaN), None, Some(TitleEps)),
      ItemOffset }

\* Frames with prevClose = 125.00: a gap of d cents is 8d in 1e-5 units, so
\* 625 cents is 0.05 and 1250 cents is 0.10; adv = 1000 makes vol_ratio the
\* volume in thousandths.
FrameGapVol(d, v) == Frame(126, 12500 + d, 12500, v, 1000)

GridHistories ==
    { HistRaises("history unavailable"),
      Frame(0, 0, 1, 0, 0),                  \* empty frame
      Frame(51, 14000, 12500, 2500, 1000),   \* one bar short of window+2
      Frame(52, 14000, 12500, 3, 0) }        \* just enough; ADV 0 floored to 1
    \cup { FrameGapVol(d, v) : d \in { -300, 0, 624, 625, 1249, 1250, 1500 },
                               v \in { 0, 1199, 1200, 1499, 1500, 1999, 2000, 2500 } }

GridFeeds ==
    { NewsRaises("news unavailable") }
    \cup { NewsFeed(s) :
             s \in SeqsUpTo({ ItemQuiet, ItemUpgrade, ItemEps, ItemMerger }, 4) }
    \cup { NewsFeed(<< ItemUpgrade, ItemOffset >>) }

\* what the data provider returns during a modelled run of build()
RunHistories ==
    { HistRaises("history unavailable"),
      Frame(51, 14000, 12500, 2500, 1000),
      FrameGapVol(1500, 2500), FrameGapVol(1250, 2000),
      FrameGapVol(625, 1500), FrameGapVol(0, 1200), FrameGapVol(1500, 1199) }

RunFeeds ==
    { NewsRaises("news unavailable"),
      NewsFeed(<<>>), NewsFeed(<< ItemUpgrade >>), NewsFeed(<< ItemEps >>),
      NewsFeed(<< ItemMerger, ItemEps >>), NewsFeed(<< ItemOffset >>) }

\* ticker list files: the tickers of a run written one list per text, the
\* first two on one comma-separated line and the rest on lines of their own
Names == { <<"A">>, <<"B">> }

RECURSIVE FileOf(_)
FileOf(ts) ==
    IF ts = <<>> THEN <<>>
    ELSE IF Len(ts) = 1 THEN ts[1]
    ELSE IF Len(ts) = 2 THEN ts[1] \o << ",", " " >> \o ts[2]
    ELSE FileOf(SubSeq(ts, 1, Len(ts) - 1)) \o << "\n" >> \o ts[Len(ts)]

RunFiles == { FileOf(ts) : ts \in SeqsUpTo(Names, MaxTickers) }

\* what `git show HEAD~1:qm1w.txt 2>/dev/null` prints: nothing when it fails
RunPrevContents == { <<>>, <<"B", ",", "C">> }

\* texts for compute_diff
DiffTexts ==
    SeqsUpTo({ "A", ",", "\n", " " }, MaxTextLen)
    \cup { <<"A",",","B",",","C">>, <<"B",",","C",",","D">>,
           <<"B",","," ","A","\n","A","\n">> }

(***************************************************************************)
(* build() (lines 58-93), one run.                                         *)
(***************************************************************************)
BuildIdle ==
    /\ pc = "idle" /\ fileText = <<>> /\ now = 0 /\ tickers = <<>> /\ idx = 1
    /\ rows = <<>> /\ df = <<>> /\ jsonFile = None /\ htmlFile = None
    /\ raised = ""
NewsIdle == newsItems = <<>> /\ sinceTs = 0 /\ newsOut = None /\ newsPrev = None
ScoreIdle == scIn = None /\ scOut = None
DiffIdle == dfIn = None /\ dfOut = None

BuildInit ==
    /\ pc = "start"
    /\ fileText \in RunFiles
    /\ now \in RunClock
    /\ tickers = <<>> /\ idx = 1 /\ rows = <<>> /\ df = <<>>
    /\ jsonFile = None /\ htmlFile = None
    /\ raised = ""

\* line 59, open() raising: the exception leaves build()
LoadFails ==
    /\ pc = "start"
    /\ pc' = "aborted"
    /\ raised' = "OSError: qm1w.txt"
    /\ UNCHANGED << fileText, now, tickers, idx, rows, df, jsonFile, htmlFile >>

\* lines 59-61
Load ==
    /\ pc = "start"
    /\ tickers' = load_tickers(fileText)
    /\ idx' = 1
    /\ rows' = <<>>
    /\ pc' = "loop"
    /\ UNCHANGED << fileText, now, df, jsonFile, htmlFile, raised >>

\* lines 62-77, one iteration
ProcessTicker ==
    /\ pc = "loop"
    /\ idx <= Len(tickers)
    /\ \E hist \in RunHistories, feed \in RunFeeds :
          rows' = Append(rows, RowFor(tickers[idx], hist, feed, SinceTs(now)))
    /\ idx' = idx + 1
    /\ UNCHANGED << pc, fileText, now, tickers, df, jsonFile, htmlFile, raised >>

\* line 79 raising KeyError: the exception leaves build()
SortFails ==
    /\ pc = "loop"
    /\ idx > Len(tickers)
    /\ LET sorted == sort_values(rows)
       IN  /\ sorted.exc # ""
           /\ raised' = sorted.exc
    /\ pc' = "aborted"
    /\ UNCHANGED << fileText, now, tickers, idx, rows, df, jsonFile, htmlFile >>

\* lines 79-80
SortAndWriteJson ==
    /\ pc = "loop"
    /\ idx > Len(tickers)
    /\ LET sorted == sort_values(rows)
       IN  /\ sorted.exc = ""
           /\ df' = sorted.frame
           /\ jsonFile' = Some(sorted.frame)
    /\ pc' = "json"
    /\ UNCHANGED << fileText, now, tickers, idx, rows, htmlFile, raised >>

\* line 80, the write raising
WriteJsonFails ==
    /\ pc = "loop"
    /\ idx > Len(tickers)
    /\ LET sorted == sort_values(rows)
       IN  /\ sorted.exc = ""
           /\ df' = sorted.frame
    /\ pc' = "aborted"
    /\ raised' = "OSError: ep_report.json"
    /\ UNCHANGED << fileText, now, tickers, idx, rows, jsonFile, htmlFile >>

\* line 82 raising: compute_diff reads the ticker list again (line 54)
DiffLoadFails ==
    /\ pc = "json"
    /\ \E prev \in RunPrevContents :
          /\ compute_diff(prev, None).exc # ""
          /\ raised' = "OSError: qm1w.txt"
    /\ pc' = "aborted"
    /\ UNCHANGED << fileText, now, tickers, idx, rows, df, jsonFile, htmlFile >>

\* lines 82-93
DiffAndWriteHtml ==
    /\ pc = "json"
    /\ \E prev \in RunPrevContents :
          LET d == compute_diff(prev, Some(fileText))
          IN  htmlFile' = Some([added |-> d.added, removed |-> d.removed,
                                table |-> df])
    /\ pc' = "done"
    /\ UNCHANGED << fileText, now, tickers, idx, rows, df, jsonFile, raised >>

\* line 84, the write raising
WriteHtmlFails ==
    /\ pc = "json"
    /\ pc' = "aborted"
    /\ raised' = "OSError: ep_report.html"
    /\ UNCHANGED << fileText, now, tickers, idx, rows, df, jsonFile, htmlFile >>

Init == BuildInit /\ NewsIdle /\ ScoreIdle /\ DiffIdle

Next ==
    \/ LoadFails /\ UNCHANGED << newsVars, scoreVars, diffVars >>
    \/ Load /\ UNCHANGED << newsVars, scoreVars, diffVars >>
    \/ ProcessTicker /\ UNCHANGED << newsVars, scoreVars, diffVars >>
    \/ SortFails /\ UNCHANGED << newsVars, scoreVars, diffVars >>
    \/ SortAndWriteJson /\ UNCHANGED << newsVars, scoreVars, diffVars >>
    \/ WriteJsonFails /\ UNCHANGED << newsVars, scoreVars, diffVars >>
    \/ DiffLoadFails /\ UNCHANGED << newsVars, scoreVars, diffVars >>
    \/ DiffAndWriteHtml /\ UNCHANGED << newsVars, scoreVars, diffVars >>
    \/ WriteHtmlFails /\ UNCHANGED << newsVars, scoreVars, diffVars >>

Spec == Init /\ [][Next]_vars

(***************************************************************************)
(* get_news_score on a list that grows by one item per call.               *)
(***************************************************************************)
NewsInit ==
    /\ newsItems = <<>>
    /\ sinceTs \in { SinceTs(t) : t \in Clock }
    /\ newsOut = Some(get_news_score(<<>>, sinceTs))
    /\ newsPrev = None

ScoreNews ==
    /\ Len(newsItems) < MaxNews
    /\ \E n \in NewsItems : newsItems' = Append(newsItems, n)
    /\ newsPrev' = newsOut
    /\ newsOut' = Some(get_news_score(newsItems', sinceTs))
    /\ UNCHANGED sinceTs

InitNews == NewsInit /\ BuildIdle /\ ScoreIdle /\ DiffIdle
NextNews == ScoreNews /\ UNCHANGED << buildVars, scoreVars, diffVars >>
SpecNews == InitNews /\ [][NextNews]_vars

(***************************************************************************)
(* The per-ticker body of build() on the grid of histories and feeds.      *)
(***************************************************************************)
ScoreTicker ==
    /\ scIn = None
    /\ \E hist \in GridHistories, feed \in GridFeeds, t \in RunClock :
          /\ scIn' = Some([hist |-> hist, feed |-> feed, since_ts |-> SinceTs(t)])
          /\ scOut' = Some([metrics |-> compute_gap_and_volume_metrics(hist).metrics,
                            locals |-> LocalsFor(hist, feed, SinceTs(t)),
                            row |-> RowFor(<<"A">>, hist, feed, SinceTs(t))])

InitScore == ScoreIdle /\ BuildIdle /\ NewsIdle /\ DiffIdle
NextScore == ScoreTicker /\ UNCHANGED << buildVars, newsVars, diffVars >>
SpecScore == InitScore /\ [][NextScore]_vars

(***************************************************************************)
(* compute_diff on pairs of texts.                                         *)
(***************************************************************************)
Diff ==
    /\ dfIn = None
    /\ \E prev \in DiffTexts, cur \in DiffTexts :
          /\ dfIn' = Some([prev |-> prev, cur |-> cur])
          /\ dfOut' = Some(compute_diff(prev, Some(cur)))

InitDiff == DiffIdle /\ BuildIdle /\ NewsIdle /\ ScoreIdle
NextDiff == Diff /\ UNCHANGED << buildVars, newsVars, scoreVars >>
SpecDiff == InitDiff /\ [][NextDiff]_vars

(***************************************************************************)
(* The claims.                                                             *)
(***************************************************************************)
Emitted == pc \in { "json", "done" }

SubScoreFields ==
    { "fresh_catalyst_score", "institutional_interest_score",
      "justified_story_score", "rerating_potential" }

\* C1: failure isolation.  A ticker whose history fetch, news fetch or score
\* computation raises never aborts the run: every ticker processed so far has
\* exactly one row, in order; a failing ticker's row has overall = 0.0, an
\* error field and none of gap_pct, vol_ratio and the sub-scores; and a run
\* whose loop is over and that held a failing ticker is not left by the
\* exception of the sort.
C1_FailureIsolation ==
    /\ pc \in { "loop", "json", "done", "aborted" } /\ raised # "OSError: qm1w.txt"
          => /\ Len(rows) = idx - 1
             /\ \A k \in DOMAIN rows : rows[k].ticker = tickers[k]
    /\ \A k \in DOMAIN rows :
          IsFailureRow(rows[k])
             => /\ rows[k].overall = 0
                /\ rows[k].error # ""
                /\ DOMAIN rows[k] \cap ({ "gap_pct", "vol_ratio" } \cup SubScoreFields) = {}
    /\ (\E k \in DOMAIN rows : IsFailureRow(rows[k])) => raised # "KeyError"

\* the sort keys of a frame row as numbers, a missing value below every
\* present one (all present values are >= 0)
KeyNum(x) == IF x = None THEN -1 ELSE x[1]
KeyOf(r) == << KeyNum(r.overall), KeyNum(r.fresh_catalyst_score), KeyNum(r.vol_ratio) >>

LexGE(a, b) ==
    \/ a[1] > b[1]
    \/ a[1] = b[1] /\ a[2] > b[2]
    \/ a[1] = b[1] /\ a[2] = b[2] /\ a[3] >= b[3]

DescendingByKeys(f) == \A k \in 1..(Len(f) - 1) : LexGE(KeyOf(f[k]), KeyOf(f[k + 1]))

TiedWith(f, r) == SelectSeq(f, LAMBDA x : KeyOf(x) = KeyOf(r))

Reorderings(s) ==
    { [k \in DOMAIN s |-> s[p[k]]] :
        p \in { q \in [DOMAIN s -> DOMAIN s] : \A i, j \in DOMAIN s : q[i] = q[j] => i = j } }

C3_CompositeRow ==
    (scOut # None /\ scOut[1].locals # None) =>
        LET l == scOut[1].locals[1]
            r == scOut[1].row
        IN  /\ SubScoreFields \cup { "overall" } \subseteq DOMAIN r
            /\ r.fresh_catalyst_score = Min(5000, l.news_score)
            /\ r.institutional_interest_score = l.inst
            /\ r.justified_story_score =
                  (IF r.fresh_catalyst_score >= 2000 /\ l.inst >= 3000 THEN 4000
                   ELSE IF r.fresh_catalyst_score > 0 THEN 2000 ELSE 500)
            /\ r.rerating_potential = Min(5000, r.fresh_catalyst_score + l.inst \div 2)

\* C4: institutional_interest_score is exactly one of 0.0, 1.5, 3.0, 5.0,
\* the first matching tier: 5.0 if gap_pct >= 0.10 and vol_ratio >= 2.0,
\* else 3.0 if gap_pct >= 0.05 and vol_ratio >= 1.5, else 1.5 if
\* vol_ratio >= 1.2, else 0.0.
C4_InstitutionalTiers ==
    (scOut # None /\ scOut[1].locals # None) =>
        LET g == scOut[1].metrics[1].gap_pct
            v == scOut[1].metrics[1].vol_ratio
            inst == scOut[1].locals[1].inst
            tier5 == g >= 10000 /\ v >= 2000
            tier3 == ~tier5 /\ g >= 5000 /\ v >= 1500
            tier15 == ~tier5 /\ ~tier3 /\ v >= 1200
        IN  /\ inst \in { 0, 1500, 3000, 5000 }
            /\ (inst = 5000) <=> tier5
            /\ (inst = 3000) <=> tier3
            /\ (inst = 1500) <=> tier15
            /\ (inst = 0) <=> (~tier5 /\ ~tier3 /\ ~tier15)
            /\ (g >= 10000 /\ v >= 1500 /\ v < 2000) => inst = 3000
            /\ v < 1200 => inst = 0

\* C4 witness: a large gap with vol_ratio in [1.5, 2.0) scored 3.0
C4_Witness ==
    /\ scOut # None /\ scOut[1].locals # None
    /\ scOut[1].metrics[1].gap_pct >= 10000
    /\ scOut[1].metrics[1].vol_ratio = 1999
    /\ scOut[1].locals[1].inst = 3000

\* the instant an item's timestamp denotes, None when missing or unparseable
PublishedAt(n) ==
    LET ts == ResolveTs(n) IN
    IF ts = None THEN None
    ELSE IF ts[1].tag = "num" THEN Some(ts[1].secs)
    ELSE IF ts[1].tag = "str" /\ ts[1].form \in { "naive", "z", "offset" }
         THEN Some(ts[1].secs)
    ELSE None

Qualifies(n, cutoff) == PublishedAt(n) # None /\ PublishedAt(n)[1] >= cutoff

RECURSIVE ExpectedSum(_, _)
ExpectedSum(items, cutoff) ==
    IF items = <<>> THEN 0
    ELSE ExpectedSum(Tail(items), cutoff)
         + (IF Qualifies(items[1], cutoff)
            THEN Min(3000, 500 + 1000 * KeywordHits(
                     IF items[1].title = None THEN <<>> ELSE Lower(items[1].title[1])))
            ELSE 0)

\* C5: for every list and cutoff get_news_score gives a result in [0, 10],
\* equal to min(10, sum over the items published at or after the cutoff of
\* min(3, 0.5 + keyword hits)), and appending an item never decreases it.
C5_MonotoneSaturating ==
    newsOut # None =>
        /\ newsOut[1].exc = ""
        /\ newsOut[1].val >= 0 /\ newsOut[1].val <= 10000
        /\ newsOut[1].val = Min(10000, ExpectedSum(newsItems, sinceTs))
        /\ newsPrev # None => newsPrev[1].val <= newsOut[1].val

\* C6: a ticker with an empty or too short history, and no fetch raising,
\* gets a row with overall = 0.0, each of the four sub-scores present and
\* 0.0, gap_pct and vol_ratio unset, and no error field.
C6_InsufficientRowShape ==
    (/\ scOut # None
     /\ scIn[1].hist.tag = "frame" /\ scIn[1].hist.bars < 52
     /\ scIn[1].feed.tag = "news"
     /\ get_news_score(scIn[1].feed.items, scIn[1].since_ts).exc = "") =>
        LET r == scOut[1].row
        IN  /\ r.overall = 0
            /\ "error" \notin DOMAIN r
            /\ r.gap_pct = None /\ r.vol_ratio = None
            /\ \A f \in SubScoreFields : f \in DOMAIN r /\ r[f] = 0

StrictlyIncreasing(s) == \A k \in 1..(Len(s) - 1) : StrLess(s[k], s[k + 1])

\* C7: added is current - previous and removed is previous - current, each
\* lexicographically sorted and duplicate-free, hence disjoint; with nothing
\* from the version history the previous set is empty, no error is raised,
\* added is all current tickers and removed is empty.
C7_Diff ==
    dfOut # None =>
        LET cur == Range(load_tickers(dfIn[1].cur))
            prev == Range(load_tickers(dfIn[1].prev))
            added == dfOut[1].added
            removed == dfOut[1].removed
        IN  /\ dfOut[1].exc = ""
            /\ Range(added) = { t \in cur : t \notin prev }
            /\ Range(removed) = { t \in prev : t \notin cur }
            /\ StrictlyIncreasing(added) /\ StrictlyIncreasing(removed)
            /\ Range(added) \cap Range(removed) = {}
            /\ dfIn[1].prev = <<>> => Range(added) = cur /\ removed = <<>>

\* C7 witness: previous = {A,B,C}, current = {B,C,D} gives [D] and [A]
C7_Witness ==
    /\ dfOut # None
    /\ dfIn[1].prev = <<"A",",","B",",","C">>
    /\ dfIn[1].cur = <<"B",",","C",",","D">>
    /\ dfOut[1].added = << <<"D">> >>
    /\ dfOut[1].removed = << <<"A">> >>

\* C8: get_news_score returns normally whatever the form of an item's
\* timestamp (missing, numeric, ISO8601-like with or without "Z" or a UTC
\* offset, unparseable); an item with a missing or unparseable timestamp is
\* skipped, every other item is skipped only if published before the cutoff.
C8_TimestampNeverRaises ==
    newsOut # None =>
        /\ newsOut[1].exc = ""
        /\ \A k \in DOMAIN newsItems :
              LET st == ItemStep(newsItems[k], sinceTs)
                  at == PublishedAt(newsItems[k])
              IN  /\ st.step # "raise"
                  /\ at = None => st.step = "skip"
                  /\ at # None => ((st.step = "skip") <=> (at[1] < sinceTs))

\* C9: a run in which a read of the ticker list fails has written neither
\* output file; and a finished run that wrote one output wrote both, unless
\* an output write failed.
C9_LoadFailureNoOutput ==
    /\ raised = "OSError: qm1w.txt" => jsonFile = None /\ htmlFile = None
    /\ (pc \in { "done", "aborted" }
        /\ raised \notin { "OSError: ep_report.json", "OSError: ep_report.html" })
          => ((jsonFile = None) <=> (htmlFile = None))

\* C10: every fully scored row has 0 < overall <= 4.85, so overall = 0.0
\* occurs only on insufficient-history and failure rows, and in the ranked
\* output every fully scored row comes before every such zero row.
C10_OverallBound ==
    /\ \A k \in DOMAIN rows :
          /\ IsScoredRow(rows[k]) => rows[k].overall > 0 /\ rows[k].overall <= 4850
          /\ rows[k].overall = 0 => IsFailureRow(rows[k]) \/ IsInsufficientRow(rows[k])
    /\ Emitted =>
          \A i, j \in DOMAIN df :
              (df[i].overall = Some(0) /\ df[j].gap_pct # None) => j < i

\* C10 witness: the lowest scored row (0.5 * 0.15, rounded) ranked ahead of
\* a zero row that was processed before it
C10_Witness ==
    /\ Emitted /\ Len(df) = 2
    /\ df[1].overall = Some(70) /\ df[1].gap_pct # None
    /\ df[2].overall = Some(0)
    /\ rows[1].overall = 0

====
